---- MODULE Spec2Model ----
(***************************************************************************)
(* Calibration service: time-bounded tag associations.                     *)
(*                                                                         *)
(* The model covers the association entity, the in-memory and relational   *)
(* calibration/tag repositories, the stubs of the document-store adapter,  *)
(* the association use cases built on the repository ports and the         *)
(* attach-by-name controller.  Instants are integers read from a           *)
(* non-decreasing clock; a fresh uuid4 is a number never used before.      *)
(*                                                                         *)
(* Spec         the use cases run one at a time                            *)
(* SpecByName   two callers interleave in the attach-by-name controller    *)
(* SpecQueries  calibrations of several users and timestamps, for the      *)
(*              queries over calibrations                                  *)
(***************************************************************************)
EXTENDS Integers, Sequences, FiniteSets, TLC

\* ------------------------------------------------------------------------
\* Bounds of the model
\* ------------------------------------------------------------------------
MaxTime == 4
MaxAssocs == 2

\* two readings of the clock that differ are TickStep apart, so that an
\* instant asked about in a query can lie strictly between them
TickStep == 2

CalIds == {"c1", "c2"}
TagNames == {"A", "B"}
TagIds == 1..2
\* the uuid4 drawn for the tag of a name: distinct names, distinct ids
TagIdOf(name) == IF name = "A" THEN 1 ELSE 2
Usernames == {"alice", "bob"}

\* CalibrationType, the type of a measurement
CalibrationTypes == {"gain", "offset"}

\* the (username, measurement timestamp, measurement type) calibrations are
\* ingested with
CalibrationInputs ==
    {<<"alice", 0, "gain">>, <<"alice", 3, "offset">>, <<"alice", 3, "gain">>,
     <<"bob", 3, "gain">>}
Backends == {"in_memory", "relational"}

\* the clients whose attach-by-name requests may interleave
Callers == {"p", "q"}
CallerRank(p) == IF p = "p" THEN 0 ELSE 1

\* Python's None for archived_at / active_at
None == -1

Instants == 0..MaxTime

\* lexicographic rank of the tag names, used by sorted()
NameRank(n) == IF n = "A" THEN 1 ELSE 2

VARIABLES
    backend,        \* which adapter pair serves the repository ports
    clock,          \* datetime.now(UTC)
    calibrations,   \* _calibrations / table calibrations: set of records
    tags,           \* _tags_by_id / table tags: sequence of records
    associations,   \* _associations / table calibration_tag_associations
    callers         \* the attach-by-name requests in flight, one per caller

vars == <<backend, clock, calibrations, tags, associations, callers>>

\* ------------------------------------------------------------------------
\* Small helpers
\* ------------------------------------------------------------------------
Range(s) == {s[i] : i \in 1..Len(s)}

Min(S) == CHOOSE x \in S : \A y \in S : x <= y

\* ------------------------------------------------------------------------
\* Entity: CalibrationTagAssociation
\* ------------------------------------------------------------------------
CalibrationTagAssociation(id, cid, tid, created) ==
    [id |-> id, calibration_id |-> cid, tag_id |-> tid,
     archived_at |-> None, created_at |-> created]

is_archived(a) == a.archived_at # None

\* archive() reading a clock that lags behind the one created_at was read from
archive_lagging(a, now) ==
    IF ~is_archived(a)
    THEN [a EXCEPT !.archived_at = IF now >= TickStep THEN now - TickStep ELSE 0]
    ELSE a

\* archive() without the is_archived guard
archive_unguarded(a, now) == [a EXCEPT !.archived_at = now]

archive(a, now) ==
    IF ~is_archived(a) THEN [a EXCEPT !.archived_at = now] ELSE a

\* an identifier that is not fresh
uuid4_repeating(store) == 1

\* uuid4(): an identifier no stored association carries
uuid4(store) == Len(store) + 1

\* ------------------------------------------------------------------------
\* Calibration repository adapters
\* ------------------------------------------------------------------------
InMemory_get(cals, cid) == cid \in {c.id : c \in cals}

SqlAlchemy_get(cals, cid) == \E c \in cals : c.id = cid

Repo_get(cid) ==
    IF backend = "in_memory" THEN InMemory_get(calibrations, cid)
    ELSE SqlAlchemy_get(calibrations, cid)

\* add_calibration: the in-memory adapter returns the stored calibration when
\* the id is taken, the relational adapter fails on the primary key
InMemory_add_calibration(cals, c) ==
    IF c.id \in {x.id : x \in cals} THEN [cals |-> cals, error |-> ""]
    ELSE [cals |-> cals \cup {c}, error |-> ""]

SqlAlchemy_add_calibration(cals, c) ==
    IF \E x \in cals : x.id = c.id
    THEN [cals |-> cals, error |-> "DatabaseOperationError"]
    ELSE [cals |-> cals \cup {c}, error |-> ""]

Repo_add_calibration(c) ==
    IF backend = "in_memory" THEN InMemory_add_calibration(calibrations, c)
    ELSE SqlAlchemy_add_calibration(calibrations, c)

\* a lookup that drops archived associations also when active_at is omitted
InMemory_get_tag_associations_hiding_archived(store, cid, active_at) ==
    SelectSeq(store, LAMBDA a :
        /\ a.calibration_id = cid
        /\ ~(/\ a.archived_at # None
             /\ (active_at = None \/ a.archived_at <= active_at)))

InMemory_get_tag_associations_for_calibration(store, cid, active_at) ==
    SelectSeq(store, LAMBDA a :
        /\ a.calibration_id = cid
        /\ ~(/\ active_at # None
             /\ a.archived_at # None
             /\ a.archived_at <= active_at))

SqlAlchemy_get_tag_associations_for_calibration(store, cid, active_at) ==
    SelectSeq(store, LAMBDA a :
        /\ a.calibration_id = cid
        /\ (active_at # None =>
              (a.archived_at = None \/ a.archived_at > active_at)))

\* the port, served by the configured adapter
Repo_get_tag_associations_for_calibration(store, cid, active_at) ==
    IF backend = "in_memory"
    THEN InMemory_get_tag_associations_for_calibration(store, cid, active_at)
    ELSE SqlAlchemy_get_tag_associations_for_calibration(store, cid, active_at)

\* position of the stored record with this (calibration_id, id) key, 0 if none
IndexOf(store, cid, id) ==
    LET hits == {i \in 1..Len(store) :
                    store[i].calibration_id = cid /\ store[i].id = id}
    IN IF hits = {} THEN 0 ELSE Min(hits)

\* self._associations[calibration_id][assoc.id] = copy
PutAssociation(store, a) ==
    LET i == IndexOf(store, a.calibration_id, a.id)
    IN IF i = 0 THEN Append(store, a) ELSE [store EXCEPT ![i] = a]

RECURSIVE InMemory_add_loop(_, _, _)
InMemory_add_loop(store, cid, new) ==
    IF new = <<>> THEN store
    ELSE LET a == Head(new)
         IN InMemory_add_loop(
                IF a.calibration_id # cid THEN store ELSE PutAssociation(store, a),
                cid, Tail(new))

InMemory_add_tags(store, cals, cid, new) ==
    IF cid \notin {c.id : c \in cals} THEN [store |-> store, error |-> ""]
    ELSE IF new = <<>> THEN [store |-> store, error |-> ""]
    ELSE [store |-> InMemory_add_loop(store, cid, new), error |-> ""]

\* add_tags without the rollback: the rows that violate nothing stay stored
\* although the call fails
SqlAlchemy_add_tags_partial(store, cals, tagrows, cid, new) ==
    LET orm == SelectSeq(new, LAMBDA a : a.calibration_id = cid)
        ids == {store[i].id : i \in 1..Len(store)}
        good(a) == /\ a.id \notin ids
                   /\ cid \in {c.id : c \in cals}
                   /\ a.tag_id \in {tagrows[k].id : k \in 1..Len(tagrows)}
        kept == SelectSeq(orm, good)
    IN IF new = <<>> \/ orm = <<>> THEN [store |-> store, error |-> ""]
       ELSE IF kept # orm
            THEN [store |-> store \o kept, error |-> "DatabaseOperationError"]
            ELSE IF \E i, j \in 1..Len(orm) : i # j /\ orm[i].id = orm[j].id
            THEN [store |-> store \o <<orm[1]>>,
                  error |-> "DatabaseOperationError"]
            ELSE [store |-> store \o orm, error |-> ""]

SqlAlchemy_add_tags(store, cals, tagrows, cid, new) ==
    LET orm == SelectSeq(new, LAMBDA a : a.calibration_id = cid)
        ids == {store[i].id : i \in 1..Len(store)}
        integrity ==
            \/ \E i \in 1..Len(orm) : orm[i].id \in ids
            \/ \E i, j \in 1..Len(orm) : i # j /\ orm[i].id = orm[j].id
            \/ cid \notin {c.id : c \in cals}
            \/ \E i \in 1..Len(orm) :
                   orm[i].tag_id \notin {tagrows[k].id : k \in 1..Len(tagrows)}
    IN IF new = <<>> \/ orm = <<>> THEN [store |-> store, error |-> ""]
       ELSE IF integrity
            THEN [store |-> store, error |-> "DatabaseOperationError"]
            ELSE [store |-> store \o orm, error |-> ""]

Repo_add_tags(cid, new) ==
    IF backend = "in_memory"
    THEN InMemory_add_tags(associations, calibrations, cid, new)
    ELSE SqlAlchemy_add_tags(associations, calibrations, tags, cid, new)

\* an update that answers with the association and stores nothing
InMemory_update_tag_association_not_stored(store, a) ==
    [store |-> store,
     result |-> IF \E i \in 1..Len(store) :
                      store[i].calibration_id = a.calibration_id
                      /\ store[i].id = a.id
                THEN <<a>> ELSE <<>>]

InMemory_update_tag_association(store, a) ==
    LET i == IndexOf(store, a.calibration_id, a.id)
    IN IF i # 0
       THEN [store |-> [store EXCEPT ![i] = a], result |-> <<a>>]
       ELSE [store |-> store, result |-> <<>>]

\* an UPDATE whose WHERE clause names the tag: every row of the tag gets the
\* archived_at of the association
SqlAlchemy_update_tag_association_by_tag(store, a) ==
    IF \A i \in 1..Len(store) : store[i].id # a.id
    THEN [store |-> store, result |-> <<>>]
    ELSE [store |-> [i \in 1..Len(store) |->
                        IF store[i].tag_id = a.tag_id
                        THEN [store[i] EXCEPT !.archived_at = a.archived_at]
                        ELSE store[i]],
          result |-> <<a>>]

SqlAlchemy_update_tag_association(store, a) ==
    LET hits == {i \in 1..Len(store) : store[i].id = a.id}
    IN IF hits = {} THEN [store |-> store, result |-> <<>>]
       ELSE LET i == Min(hits)
                row == [store[i] EXCEPT !.archived_at = a.archived_at]
            IN [store |-> [store EXCEPT ![i] = row], result |-> <<row>>]

\* an update that deletes the record it was given
Repo_update_tag_association_dropping(a) ==
    [store |-> SelectSeq(associations, LAMBDA x : x.id # a.id),
     result |-> <<a>>]

Repo_update_tag_association(a) ==
    IF backend = "in_memory"
    THEN InMemory_update_tag_association(associations, a)
    ELSE SqlAlchemy_update_tag_association(associations, a)

\* username=None: no filter on the user
AnyUser == "*"

\* calibration_type=None: no filter on the measurement type
AnyType == "*"

\* _tags of the in-memory calibration repository: a class attribute that no
\* method of the repository, and no other code, ever writes
InMemory_tags == <<>>

\* results.sort(key=timestamp, reverse=True) / ORDER BY timestamp DESC
RECURSIVE SortByTimestampDesc(_)
SortByTimestampDesc(S) ==
    IF S = {} THEN <<>>
    ELSE LET c == CHOOSE x \in S : \A y \in S : x.timestamp >= y.timestamp
         IN <<c>> \o SortByTimestampDesc(S \ {c})

\* names of the tags, as known to the repository, that the calibration has
\* an association with archived_at unset for
InMemory_active_tag_names(store, repo_tags, cid) ==
    {repo_tags[k].name :
        k \in {j \in 1..Len(repo_tags) :
                 \E i \in 1..Len(store) :
                    /\ store[i].calibration_id = cid
                    /\ store[i].archived_at = None
                    /\ store[i].tag_id = repo_tags[j].id}}

\* a listing that leaves the filter on the measurement type out
InMemory_list_by_filters_ignoring_type(cals, store, repo_tags, username, timestamp, calibration_type, tag_names) ==
    SortByTimestampDesc(
        {c \in cals :
            /\ username # AnyUser => c.username = username
            /\ timestamp # None => c.timestamp = timestamp
            /\ Range(tag_names)
                  \subseteq InMemory_active_tag_names(store, repo_tags, c.id)})

\* tag_names = <<>> stands for tags=None and for tags=[], which both leave
\* every calibration in
InMemory_list_by_filters(cals, store, repo_tags, username, timestamp, calibration_type, tag_names) ==
    SortByTimestampDesc(
        {c \in cals :
            /\ username # AnyUser => c.username = username
            /\ timestamp # None => c.timestamp = timestamp
            /\ calibration_type # AnyType => c.type = calibration_type
            /\ Range(tag_names)
                  \subseteq InMemory_active_tag_names(store, repo_tags, c.id)})

SqlAlchemy_list_by_filters(cals, store, tagrows, username, timestamp, calibration_type, tag_names) ==
    LET tag_ids == {tagrows[i].id :
                       i \in {k \in 1..Len(tagrows) :
                                 tagrows[k].name \in Range(tag_names)}}
    IN IF tag_names # <<>> /\ tag_ids = {} THEN <<>>
       ELSE SortByTimestampDesc(
              {c \in cals :
                  /\ username # AnyUser => c.username = username
                  /\ timestamp # None => c.timestamp = timestamp
                  /\ calibration_type # AnyType => c.type = calibration_type
                  /\ tag_names # <<>> =>
                        \E i \in 1..Len(store) :
                           /\ store[i].calibration_id = c.id
                           /\ store[i].tag_id \in tag_ids
                           /\ store[i].archived_at = None})

\* calibrations with an association of the tag that was active at the
\* instant; the in-memory adapter also wants the measurement timestamp of
\* the calibration to be at or before the instant
InMemory_get_by_tag_at_timestamp(cals, store, tag_id, timestamp, username) ==
    LET matching_cal_ids ==
            {store[i].calibration_id :
                i \in {k \in 1..Len(store) :
                          /\ store[k].tag_id = tag_id
                          /\ store[k].created_at <= timestamp
                          /\ (store[k].archived_at = None
                                \/ store[k].archived_at > timestamp)}}
    IN SortByTimestampDesc(
          {c \in cals :
              /\ c.id \in matching_cal_ids
              /\ ~(username # AnyUser /\ c.username # username)
              /\ c.timestamp <= timestamp})

\* the query with the interval closed at its end: archived_at >= timestamp
SqlAlchemy_get_by_tag_at_timestamp_closed_end(cals, store, tag_id, timestamp, username) ==
    SortByTimestampDesc(
        {c \in cals :
            /\ \E i \in 1..Len(store) :
                  /\ store[i].calibration_id = c.id
                  /\ store[i].tag_id = tag_id
                  /\ store[i].created_at <= timestamp
                  /\ (store[i].archived_at = None
                        \/ store[i].archived_at >= timestamp)
            /\ username # AnyUser => c.username = username})

\* SELECT calibrations JOIN tag_associations WHERE ... ORDER BY timestamp DESC
SqlAlchemy_get_by_tag_at_timestamp(cals, store, tag_id, timestamp, username) ==
    SortByTimestampDesc(
        {c \in cals :
            /\ \E i \in 1..Len(store) :
                  /\ store[i].calibration_id = c.id
                  /\ store[i].tag_id = tag_id
                  /\ store[i].created_at <= timestamp
                  /\ (store[i].archived_at = None
                        \/ store[i].archived_at > timestamp)
            /\ username # AnyUser => c.username = username})

Repo_get_by_tag_at_timestamp(tag_id, timestamp, username) ==
    IF backend = "in_memory"
    THEN InMemory_get_by_tag_at_timestamp(calibrations, associations,
                                          tag_id, timestamp, username)
    ELSE SqlAlchemy_get_by_tag_at_timestamp(calibrations, associations,
                                            tag_id, timestamp, username)

\* the document-store adapter: the association lookup and the association
\* update are stubs that return [] and None and touch nothing
Mongo_get_tag_associations_for_calibration(store, cid, active_at) == <<>>

Mongo_update_tag_association(store, a) == [store |-> store, result |-> <<>>]

Repo_list_by_filters(username, timestamp, calibration_type, tag_names) ==
    IF backend = "in_memory"
    THEN InMemory_list_by_filters(calibrations, associations, InMemory_tags,
                                  username, timestamp, calibration_type,
                                  tag_names)
    ELSE SqlAlchemy_list_by_filters(calibrations, associations, tags,
                                    username, timestamp, calibration_type,
                                    tag_names)

\* ------------------------------------------------------------------------
\* Tag repository adapters
\* ------------------------------------------------------------------------
TagRow(tagrows, tid) ==
    tagrows[CHOOSE i \in 1..Len(tagrows) : tagrows[i].id = tid]

Mock_get_by_id(tagrows, tid) == \E i \in 1..Len(tagrows) : tagrows[i].id = tid

SqlAlchemy_get_by_id(tagrows, tid) ==
    SelectSeq(tagrows, LAMBDA t : t.id = tid) # <<>>

Repo_tag_get_by_id(tid) ==
    IF backend = "in_memory" THEN Mock_get_by_id(tags, tid)
    ELSE SqlAlchemy_get_by_id(tags, tid)

\* the tags attribute, as tag names, of the Calibration entity a read returns.
\* The in-memory get copies the attributes of the stored calibration, whose
\* tags list add_calibration set to [] and add_tags never touches.
InMemory_get_tags(cals, cid) == (CHOOSE c \in cals : c.id = cid).tags

\* list_by_filters of the in-memory adapter fills entity.tags from the
\* associations with archived_at unset whose tag is in the repository's _tags
InMemory_list_by_filters_tags(store, repo_tags, cid) ==
    LET active == SelectSeq(store, LAMBDA a :
                      /\ a.calibration_id = cid
                      /\ a.archived_at = None
                      /\ \E i \in 1..Len(repo_tags) : repo_tags[i].id = a.tag_id)
    IN [i \in 1..Len(active) |-> TagRow(repo_tags, active[i].tag_id).name]

\* to_entity(): the tags of the associations with archived_at unset
CalibrationORM_to_entity_tags(store, tagrows, cid) ==
    LET active == SelectSeq(store, LAMBDA a :
                      /\ a.calibration_id = cid
                      /\ a.archived_at = None
                      /\ \E i \in 1..Len(tagrows) : tagrows[i].id = a.tag_id)
    IN [i \in 1..Len(active) |-> TagRow(tagrows, active[i].tag_id).name]

Repo_get_tags(cid) ==
    IF backend = "in_memory" THEN InMemory_get_tags(calibrations, cid)
    ELSE CalibrationORM_to_entity_tags(associations, tags, cid)

Repo_list_by_filters_tags(cid) ==
    IF backend = "in_memory"
    THEN InMemory_list_by_filters_tags(associations, InMemory_tags, cid)
    ELSE CalibrationORM_to_entity_tags(associations, tags, cid)

\* one tag per requested id that is stored, in the order of the request
Mock_get_by_ids(tagrows, tag_ids) ==
    LET found == SelectSeq(tag_ids, LAMBDA t :
                     \E i \in 1..Len(tagrows) : tagrows[i].id = t)
    IN [i \in 1..Len(found) |-> TagRow(tagrows, found[i])]

\* WHERE id IN (...): each stored tag at most once
SqlAlchemy_get_by_ids(tagrows, tag_ids) ==
    IF tag_ids = <<>> THEN <<>>
    ELSE SelectSeq(tagrows, LAMBDA t : t.id \in Range(tag_ids))

Repo_tag_get_by_ids(tag_ids) ==
    IF backend = "in_memory" THEN Mock_get_by_ids(tags, tag_ids)
    ELSE SqlAlchemy_get_by_ids(tags, tag_ids)

\* the id of the stored tag of this name, None when there is none
Mock_get_by_name(tagrows, name) ==
    LET hits == {i \in 1..Len(tagrows) : tagrows[i].name = name}
    IN IF hits = {} THEN None ELSE tagrows[Min(hits)].id

\* SELECT ... WHERE name = :name, first row
SqlAlchemy_get_by_name(tagrows, name) ==
    LET rows == SelectSeq(tagrows, LAMBDA t : t.name = name)
    IN IF rows = <<>> THEN None ELSE rows[1].id

Repo_tag_get_by_name(name) ==
    IF backend = "in_memory" THEN Mock_get_by_name(tags, name)
    ELSE SqlAlchemy_get_by_name(tags, name)

\* an add that answers a taken name by returning without an error
Mock_add_returning_existing(tagrows, tag) ==
    IF \E i \in 1..Len(tagrows) : tagrows[i].name = tag.name
    THEN [tags |-> tagrows, error |-> "", message |-> ""]
    ELSE [tags |-> Append(tagrows, tag), error |-> "", message |-> ""]

\* TagRepository.add: conflict on a stored name, else store a copy
\* message: the part of the error text that callers test
Mock_add(tagrows, tag) ==
    IF \E i \in 1..Len(tagrows) : tagrows[i].name = tag.name
    THEN [tags |-> tagrows, error |-> "DatabaseOperationError",
          message |-> "already exists"]
    ELSE [tags |-> Append(tagrows, tag), error |-> "", message |-> ""]

\* unique constraint on tags.name (and the primary key) checked at flush;
\* the violation of the name constraint is reported as "already exists",
\* any other integrity error as a data integrity issue
SqlAlchemy_add(tagrows, tag) ==
    IF \E i \in 1..Len(tagrows) : tagrows[i].name = tag.name
    THEN [tags |-> tagrows, error |-> "DatabaseOperationError",
          message |-> "already exists"]
    ELSE IF \E i \in 1..Len(tagrows) : tagrows[i].id = tag.id
    THEN [tags |-> tagrows, error |-> "DatabaseOperationError",
          message |-> "data integrity issue"]
    ELSE [tags |-> Append(tagrows, tag), error |-> "", message |-> ""]

Repo_tag_add(tag) ==
    IF backend = "in_memory" THEN Mock_add(tags, tag)
    ELSE SqlAlchemy_add(tags, tag)

\* a caller with no request in flight
Idle ==
    [pc |-> "idle", cid |-> "", name |-> "", tag |-> None, error |-> "",
     raced |-> FALSE]

\* ------------------------------------------------------------------------
\* Initial state: empty stores
\* ------------------------------------------------------------------------
Init ==
    /\ backend \in Backends
    /\ clock = 0
    /\ calibrations = {}
    /\ tags = <<>>
    /\ associations = <<>>
    /\ callers = [p \in Callers |-> Idle]

\* ------------------------------------------------------------------------
\* Environment: time passes
\* ------------------------------------------------------------------------
Tick ==
    /\ clock + TickStep <= MaxTime
    /\ clock' = clock + TickStep
    /\ UNCHANGED <<callers, backend, calibrations, tags, associations>>

\* ------------------------------------------------------------------------
\* Ingestion of calibrations and creation of tags
\* ------------------------------------------------------------------------
\* AddCalibrationUseCase with an explicitly supplied id; any exception of
\* the repository comes out as DatabaseOperationError.  created: the
\* calibration reported as created, <<>> on failure
AddCalibrationUseCase_call(cid, user, ts, type) ==
    LET calibration == [id |-> cid, username |-> user, timestamp |-> ts,
                        type |-> type, tags |-> <<>>]
        r == Repo_add_calibration(calibration)
    IN [cals |-> r.cals,
        error |-> IF r.error # "" THEN "DatabaseOperationError" ELSE "",
        created |-> IF r.error # "" THEN <<>>
                    ELSE <<CHOOSE c \in r.cals : c.id = cid>>]

AddCalibration(cid, user, ts, type) ==
    /\ calibrations' = AddCalibrationUseCase_call(cid, user, ts, type).cals
    /\ UNCHANGED <<callers, backend, clock, tags, associations>>

TagRepositoryAdd(name) ==
    \E r \in {Repo_tag_add([id |-> TagIdOf(name), name |-> name])} :
       /\ tags' = r.tags
       /\ UNCHANGED <<callers, backend, clock, calibrations, associations>>

\* ------------------------------------------------------------------------
\* Use case: attach a tag to a calibration
\* The use cases are functions of the stored state and their input; they
\* yield the associations to store, the exception raised (error, "" when
\* the call returned), the associations returned (result), the tag ids
\* reported as skipped or missing, and the repository calls issued (calls).
\* ------------------------------------------------------------------------
Failed(err, calls) ==
    [store |-> associations, error |-> err, result |-> <<>>, skipped |-> {},
     calls |-> calls]

\* the match with the archived test inverted
ActiveAssociations_inverted(assocs, tid) ==
    {i \in 1..Len(assocs) : assocs[i].tag_id = tid /\ is_archived(assocs[i])}

\* positions of the associations of the tag that are not archived
ActiveAssociations(assocs, tid) ==
    {i \in 1..Len(assocs) : assocs[i].tag_id = tid /\ ~is_archived(assocs[i])}

\* the existence checks with the tag looked up before the calibration
AttachNotFound_tag_first(cid, tid) ==
    IF ~Repo_tag_get_by_id(tid)
    THEN Failed("TagNotFoundError", <<"get_by_id">>)
    ELSE IF ~Repo_get(cid)
    THEN Failed("CalibrationNotFoundError", <<"get_by_id", "get">>)
    ELSE Failed("", <<"get", "get_by_id">>)

\* steps 1 and 2 of attach: the calibration, then the tag, must exist;
\* error "" when both do
AttachNotFound(cid, tid) ==
    IF ~Repo_get(cid)
    THEN Failed("CalibrationNotFoundError", <<"get">>)
    ELSE IF ~Repo_tag_get_by_id(tid)
    THEN Failed("TagNotFoundError", <<"get", "get_by_id">>)
    ELSE Failed("", <<"get", "get_by_id">>)

AddTagToCalibrationUseCase_execute(cid, tid) ==
    IF AttachNotFound(cid, tid).error # ""
    THEN AttachNotFound(cid, tid)
    ELSE
      LET existing_associations ==
              Repo_get_tag_associations_for_calibration(associations, cid, None)
          active == ActiveAssociations(existing_associations, tid)
          reads == <<"get", "get_by_id", "get_tag_associations_for_calibration">>
      IN IF active # {}
         THEN [store |-> associations, error |-> "",
               result |-> <<existing_associations[Min(active)]>>,
               skipped |-> {}, calls |-> reads]
         ELSE
           LET new_association ==
                   CalibrationTagAssociation(uuid4(associations), cid, tid, clock)
               r == Repo_add_tags(cid, <<new_association>>)
           IN [store |-> r.store, error |-> r.error,
               result |-> IF r.error = "" THEN <<new_association>> ELSE <<>>,
               skipped |-> {}, calls |-> Append(reads, "add_tags")]

AddTagToCalibration(cid, tid) ==
    \E r \in {AddTagToCalibrationUseCase_execute(cid, tid)} :
       /\ Len(r.store) <= MaxAssocs
       /\ associations' = r.store
       /\ UNCHANGED <<callers, backend, clock, calibrations, tags>>

\* ------------------------------------------------------------------------
\* Use case: detach a tag from a calibration (archive the association)
\* later: the instant datetime.now(UTC) yields inside archive(), at or after
\* the instant read at the start of the use case
\* ------------------------------------------------------------------------
\* detach that reports success when nothing is active
NoActiveAssociation_silent(reads) == Failed("", reads)

NoActiveAssociation(reads) == Failed("AssociationNotFoundError", reads)

RemoveTagFromCalibrationUseCase_execute(cid, tid, later) ==
    IF ~Repo_get(cid)
    THEN Failed("CalibrationNotFoundError", <<"get">>)
    ELSE IF ~Repo_tag_get_by_id(tid)
    THEN Failed("TagNotFoundError", <<"get", "get_by_id">>)
    ELSE
      LET now == clock
          active_associations ==
              Repo_get_tag_associations_for_calibration(associations, cid, now)
          hits == ActiveAssociations(active_associations, tid)
          reads == <<"get", "get_by_id", "get_tag_associations_for_calibration">>
      IN IF hits = {}
         THEN NoActiveAssociation(reads)
         ELSE
           LET association_to_archive ==
                   archive(active_associations[Min(hits)], later)
               r == Repo_update_tag_association(association_to_archive)
           IN [store |-> r.store,
               error |-> IF r.result = <<>> THEN "RuntimeError" ELSE "",
               result |-> r.result, skipped |-> {},
               calls |-> Append(reads, "update_tag_association")]

RemoveTagFromCalibration(cid, tid, later) ==
    /\ later \in {clock, clock + TickStep}
    /\ later <= MaxTime
    /\ \E r \in {RemoveTagFromCalibrationUseCase_execute(cid, tid, later)} :
          /\ clock' = (IF "update_tag_association" \in Range(r.calls)
                       THEN later ELSE clock)
          /\ associations' = r.store
       /\ UNCHANGED <<callers, backend, calibrations, tags>>

\* ------------------------------------------------------------------------
\* Use case: bulk attach
\* order: the iteration order of list(set) over the new tag ids
\* ------------------------------------------------------------------------
TagIdLists == {<<>>} \cup {<<t>> : t \in TagIds}
                  \cup {<<t, u>> : t \in TagIds, u \in TagIds}

\* the orders of a list that keeps the repetitions of its elements
Orders_with_repetitions(S) == {s \in TagIdLists : s # <<>> /\ Range(s) = S}

Orders(S) == {s \in TagIdLists : Range(s) = S /\ Len(s) = Cardinality(S)}

\* list(a_set): the elements once each, in some order
ListOfSet(S) == CHOOSE s \in Orders(S) : TRUE

NewAssociations(store, cid, order, now) ==
    [i \in 1..Len(order) |->
        CalibrationTagAssociation(uuid4(store) + (i - 1), cid, order[i], now)]

\* the tag ids with an association of the calibration that is not archived
ActiveTagIds(cid) ==
    LET current_associations ==
            Repo_get_tag_associations_for_calibration(associations, cid, None)
    IN {current_associations[i].tag_id :
           i \in {k \in 1..Len(current_associations) :
                     ~is_archived(current_associations[k])}}

\* bulk attach that forgets to leave out the active tags
NewTagIds_unfiltered(cid, tag_ids) == Range(tag_ids)

\* the requested tag ids that are not active on the calibration
NewTagIds(cid, tag_ids) == Range(tag_ids) \ ActiveTagIds(cid)

\* bulk attach that reports no tag as skipped
SkippedTagIds_none(cid, tag_ids) == {}

\* the requested tag ids that are already active on the calibration
SkippedTagIds(cid, tag_ids) == Range(tag_ids) \cap ActiveTagIds(cid)

\* the empty request rejected only after the calibration was read
EmptyTagIds_checked_late == Failed("ValidationError", <<"get">>)

\* raise ValidationError("List of tag IDs cannot be empty.")
EmptyTagIds == Failed("ValidationError", <<>>)

\* a validation that stops at the first missing tag id
NotFoundIds_first_only(requested, found_tags) ==
    LET missing == requested \ {found_tags[i].id : i \in 1..Len(found_tags)}
    IN IF missing = {} THEN {} ELSE {Min(missing)}

\* not_found_ids = tag_ids_to_add_set - found_tag_ids
NotFoundIds(requested, found_tags) ==
    requested \ {found_tags[i].id : i \in 1..Len(found_tags)}

AddBulkTagsToCalibrationUseCase_call(cid, tag_ids, order) ==
    LET tag_ids_to_add_set == Range(tag_ids)
    IN
    IF tag_ids_to_add_set = {}
    THEN EmptyTagIds
    ELSE IF ~Repo_get(cid)
    THEN Failed("CalibrationNotFoundError", <<"get">>)
    ELSE
      LET found_tags == Repo_tag_get_by_ids(ListOfSet(tag_ids_to_add_set))
          not_found_ids == NotFoundIds(tag_ids_to_add_set, found_tags)
      IN
      IF not_found_ids # {}
      THEN [Failed("TagNotFoundError", <<"get", "get_by_ids">>)
               EXCEPT !.skipped = not_found_ids]
      ELSE
        LET new_tag_ids_to_associate == NewTagIds(cid, tag_ids)
            skipped_tag_ids == SkippedTagIds(cid, tag_ids)
            reads == <<"get", "get_by_ids",
                       "get_tag_associations_for_calibration">>
        IN
        IF new_tag_ids_to_associate = {}
        THEN [store |-> associations, error |-> "", result |-> <<>>,
              skipped |-> skipped_tag_ids, calls |-> reads]
        ELSE
          LET new_associations ==
                  NewAssociations(associations, cid, order, clock)
              r == Repo_add_tags(cid, new_associations)
          IN [store |-> r.store, error |-> r.error,
              result |-> IF r.error = "" THEN new_associations ELSE <<>>,
              skipped |-> skipped_tag_ids,
              calls |-> Append(reads, "add_tags")]

AddBulkTagsToCalibration(cid, tag_ids, order) ==
    /\ order \in Orders(NewTagIds(cid, tag_ids))
    /\ \E r \in {AddBulkTagsToCalibrationUseCase_call(cid, tag_ids, order)} :
          /\ Len(r.store) <= MaxAssocs
          /\ associations' = r.store
       /\ UNCHANGED <<callers, backend, clock, calibrations, tags>>

\* ------------------------------------------------------------------------
\* Use case: tags of a calibration at an instant
\* ------------------------------------------------------------------------
RECURSIVE Insert(_, _)
Insert(sorted, n) ==
    IF sorted = <<>> THEN <<n>>
    ELSE IF NameRank(n) < NameRank(Head(sorted)) THEN <<n>> \o sorted
    ELSE <<Head(sorted)>> \o Insert(Tail(sorted), n)

RECURSIVE Sorted(_)
Sorted(names) ==
    IF names = <<>> THEN <<>> ELSE Insert(Sorted(Tail(names)), Head(names))

GetTagsForCalibrationUseCase_execute(cid, timestamp) ==
    IF ~Repo_get(cid)
    THEN [error |-> "CalibrationNotFoundError", tag_names |-> <<>>,
          calls |-> <<"get">>]
    ELSE
      LET assocs == Repo_get_tag_associations_for_calibration(
                        associations, cid, timestamp)
          tag_ids == [i \in 1..Len(assocs) |-> assocs[i].tag_id]
          found == IF tag_ids # <<>> THEN Repo_tag_get_by_ids(tag_ids) ELSE <<>>
      IN [error |-> "",
          tag_names |-> Sorted([i \in 1..Len(found) |-> found[i].name]),
          calls |-> IF tag_ids # <<>>
                    THEN <<"get", "get_tag_associations_for_calibration",
                           "get_by_ids">>
                    ELSE <<"get", "get_tag_associations_for_calibration">>]

\* ------------------------------------------------------------------------
\* Use case: create a tag.  RawNames are the names a caller may send;
\* strip is str.strip() on them
\* ------------------------------------------------------------------------
RawNames == TagNames \cup {"", " ", " A"}

strip(name) ==
    IF name = " " THEN "" ELSE IF name = " A" THEN "A" ELSE name

\* create-tag that stores another tag under a name that is stored already
CreateTagUseCase_execute_creating_another(name) ==
    IF name = "" \/ strip(name) = ""
    THEN [tags |-> tags, error |-> "ValueError", tag |-> None, calls |-> <<>>]
    ELSE LET new_tag == [id |-> TagIdOf(strip(name)) + 2 * Len(tags),
                         name |-> strip(name)]
         IN [tags |-> Append(tags, new_tag), error |-> "", tag |-> new_tag.id,
             calls |-> <<"get_by_name", "add">>]

CreateTagUseCase_execute(name) ==
    IF name = "" \/ strip(name) = ""
    THEN [tags |-> tags, error |-> "ValueError", tag |-> None, calls |-> <<>>]
    ELSE
      LET existing_tag == Repo_tag_get_by_name(strip(name))
      IN IF existing_tag # None
         THEN [tags |-> tags, error |-> "", tag |-> existing_tag,
               calls |-> <<"get_by_name">>]
         ELSE
           LET new_tag == [id |-> TagIdOf(strip(name)), name |-> strip(name)]
               r == Repo_tag_add(new_tag)
           IN [tags |-> r.tags, error |-> r.error,
               tag |-> IF r.error = "" THEN new_tag.id ELSE None,
               calls |-> <<"get_by_name", "add">>]

\* ------------------------------------------------------------------------
\* Use case: calibrations that carried a tag at an instant
\* ------------------------------------------------------------------------
\* the use case issuing the association query before it looks at the tag
GetCalibrationsByTagUseCase_execute_query_first(tag_name, timestamp, username) ==
    LET tag == Repo_tag_get_by_name(tag_name)
        found == IF tag = None THEN <<>>
                 ELSE Repo_get_by_tag_at_timestamp(tag, timestamp, username)
    IN [error |-> IF tag = None THEN "TagNotFoundError" ELSE "",
        calibrations |-> found,
        calls |-> <<"get_by_name", "get_by_tag_at_timestamp">>]

GetCalibrationsByTagUseCase_execute(tag_name, timestamp, username) ==
    LET tag == Repo_tag_get_by_name(tag_name)
    IN IF tag = None
       THEN [error |-> "TagNotFoundError", calibrations |-> <<>>,
             calls |-> <<"get_by_name">>]
       ELSE [error |-> "",
             calibrations |->
                 Repo_get_by_tag_at_timestamp(tag, timestamp, username),
             calls |-> <<"get_by_name", "get_by_tag_at_timestamp">>]

\* the create-tag use case, run to completion
CreateTag(name) ==
    \E r \in {CreateTagUseCase_execute(name)} :
       /\ Len(r.tags) <= Cardinality(TagNames)
       /\ tags' = r.tags
       /\ UNCHANGED <<callers, backend, clock, calibrations, associations>>

Next ==
    \/ Tick
    \/ \E cid \in CalIds : AddCalibration(cid, "alice", 0, "gain")
    \/ \E n \in TagNames : TagRepositoryAdd(n)
    \/ \E n \in RawNames : CreateTag(n)
    \/ \E cid \in CalIds, tid \in TagIds : AddTagToCalibration(cid, tid)
    \/ \E cid \in CalIds, tid \in TagIds, later \in Instants :
           RemoveTagFromCalibration(cid, tid, later)
    \/ \E cid \in CalIds, tag_ids \in TagIdLists, order \in TagIdLists :
           AddBulkTagsToCalibration(cid, tag_ids, order)

Spec == Init /\ [][Next]_vars

\* ------------------------------------------------------------------------
\* A caller holding what a read returned, and changing it.
\* The in-memory reads build Calibration(**stored.__dict__) and
\* CalibrationTagAssociation(**stored.__dict__): a new object whose
\* attributes are the attribute values of the stored one.  The fields of an
\* association are values; the tags attribute of a calibration is a list
\* object, so the new calibration refers to the list of the stored one.
\* The relational adapter builds the list anew in to_entity().
\* ------------------------------------------------------------------------
\* get(id=cid) as an entity: tags_of names the calibration whose stored list
\* the entity's tags attribute refers to, "" when the list is its own
InMemory_get_entity(cals, cid) ==
    [pc |-> "holds_calibration", cid |-> cid, tags_of |-> cid, own_tags |-> <<>>]

SqlAlchemy_get_entity(cals, cid) ==
    [pc |-> "holds_calibration", cid |-> cid, tags_of |-> "", own_tags |-> <<>>]

Caller_get(p, cid) ==
    /\ callers[p].pc = "idle"
    /\ Repo_get(cid)
    /\ callers' = [callers EXCEPT ![p] =
                      IF backend = "in_memory"
                      THEN InMemory_get_entity(calibrations, cid)
                      ELSE SqlAlchemy_get_entity(calibrations, cid)]
    /\ UNCHANGED <<backend, clock, calibrations, tags, associations>>

\* entity.tags.append(tag) on the calibration the caller holds
Caller_append_tag(p, name) ==
    /\ callers[p].pc = "holds_calibration"
    /\ IF callers[p].tags_of # ""
       THEN /\ \E c \in calibrations :
                  /\ c.id = callers[p].tags_of
                  /\ name \notin Range(c.tags)
                  /\ calibrations' = (calibrations \ {c})
                         \cup {[c EXCEPT !.tags = Append(@, name)]}
            /\ UNCHANGED callers
       ELSE /\ name \notin Range(callers[p].own_tags)
            /\ callers' = [callers EXCEPT ![p].own_tags = Append(@, name)]
            /\ UNCHANGED calibrations
    /\ UNCHANGED <<backend, clock, tags, associations>>

\* the caller reads the associations of a calibration and keeps the list
Caller_get_tag_associations(p, cid) ==
    /\ callers[p].pc = "idle"
    /\ callers' = [callers EXCEPT ![p] =
                      [pc |-> "holds_associations", cid |-> cid,
                       held |-> Repo_get_tag_associations_for_calibration(
                                    associations, cid, None)]]
    /\ UNCHANGED <<backend, clock, calibrations, tags, associations>>

\* assoc.archive() on an association the caller holds
Caller_archive(p, i) ==
    /\ callers[p].pc = "holds_associations"
    /\ i \in 1..Len(callers[p].held)
    /\ ~is_archived(callers[p].held[i])
    /\ callers' = [callers EXCEPT ![p].held[i] = archive(@, clock)]
    /\ UNCHANGED <<backend, clock, calibrations, tags, associations>>

\* the caller drops what it holds
Caller_release(p) ==
    /\ callers[p].pc \in {"holds_calibration", "holds_associations"}
    /\ callers' = [callers EXCEPT ![p] = Idle]
    /\ UNCHANGED <<backend, clock, calibrations, tags, associations>>

\* a caller changes an entity that a read returned to it
CallerMutates ==
    \/ \E n \in TagNames : Caller_append_tag("p", n)
    \/ \E i \in 1..MaxAssocs : Caller_archive("p", i)

NextReads ==
    \/ Tick
    \/ \E cid \in CalIds : AddCalibration(cid, "alice", 0, "gain")
    \/ \E n \in TagNames : TagRepositoryAdd(n)
    \/ \E cid \in CalIds, tid \in TagIds : AddTagToCalibration(cid, tid)
    \/ \E cid \in CalIds : Caller_get("p", cid)
    \/ \E cid \in CalIds : Caller_get_tag_associations("p", cid)
    \/ CallerMutates
    \/ Caller_release("p")

SpecReads == Init /\ [][NextReads]_vars

\* the system as the queries over calibrations see it: calibrations of
\* several users and measurement timestamps, tagged and untagged over time
NextQueries ==
    \/ Tick
    \/ \E cid \in CalIds, in \in CalibrationInputs :
           AddCalibration(cid, in[1], in[2], in[3])
    \/ \E n \in TagNames : TagRepositoryAdd(n)
    \/ \E cid \in CalIds, tid \in TagIds : AddTagToCalibration(cid, tid)
    \/ \E cid \in CalIds, tid \in TagIds, later \in Instants :
           RemoveTagFromCalibration(cid, tid, later)

SpecQueries == Init /\ [][NextQueries]_vars

\* ------------------------------------------------------------------------
\* Controller: attach by tag name (get or create the tag, then attach).
\* Every await of a repository call is a point where the other caller's
\* request may run; the attach use case is taken as one step here.
\* ------------------------------------------------------------------------
\* uuid4() of a Tag built by a caller: no two callers draw the same id
TagUuid(p, name) == TagIdOf(name) + 2 * CallerRank(p)

\* a controller that never recognises the conflict raised by add
IsNameConflict_never(message) == FALSE

\* "already exists" in str(e).lower()
IsNameConflict(message) == message = "already exists"

\* the request enters add_tag_to_calibration
Controller_begin(p, cid, name) ==
    /\ callers[p].pc = "idle"
    /\ callers' = [callers EXCEPT ![p] =
                      [Idle EXCEPT !.pc = "get_by_name", !.cid = cid,
                                   !.name = name]]
    /\ UNCHANGED <<backend, clock, calibrations, tags, associations>>

\* _get_or_create_tag: tag = await get_by_name(tag_name)
GetOrCreateTag_get_by_name(p) ==
    /\ callers[p].pc = "get_by_name"
    /\ LET tag == Repo_tag_get_by_name(callers[p].name)
       IN callers' = [callers EXCEPT ![p] =
                        IF tag # None
                        THEN [@ EXCEPT !.pc = "attach", !.tag = tag]
                        ELSE [@ EXCEPT !.pc = "create_get_by_name"]]
    /\ UNCHANGED <<backend, clock, calibrations, tags, associations>>

\* CreateTagUseCase.execute: existing_tag = await get_by_name(name)
CreateTagUseCase_get_by_name(p) ==
    /\ callers[p].pc = "create_get_by_name"
    /\ LET tag == Repo_tag_get_by_name(callers[p].name)
       IN callers' = [callers EXCEPT ![p] =
                        IF tag # None
                        THEN [@ EXCEPT !.pc = "attach", !.tag = tag]
                        ELSE [@ EXCEPT !.pc = "create_add"]]
    /\ UNCHANGED <<backend, clock, calibrations, tags, associations>>

\* CreateTagUseCase.execute: await add(Tag(name)); the controller catches
\* DatabaseOperationError and fetches again when the name was taken
CreateTagUseCase_add(p) ==
    /\ callers[p].pc = "create_add"
    /\ \E r \in {Repo_tag_add([id |-> TagUuid(p, callers[p].name),
                                name |-> callers[p].name])} :
          /\ tags' = r.tags
          /\ callers' = [callers EXCEPT ![p] =
                IF r.error = ""
                THEN [@ EXCEPT !.pc = "attach",
                               !.tag = TagUuid(p, callers[p].name)]
                ELSE IF IsNameConflict(r.message)
                THEN [@ EXCEPT !.pc = "get_by_name_again", !.raced = TRUE]
                ELSE [@ EXCEPT !.pc = "failed", !.error = r.error]]
    /\ UNCHANGED <<backend, clock, calibrations, associations>>

\* _get_or_create_tag after the conflict: tag = await get_by_name(tag_name)
GetOrCreateTag_get_by_name_again(p) ==
    /\ callers[p].pc = "get_by_name_again"
    /\ LET tag == Repo_tag_get_by_name(callers[p].name)
       IN callers' = [callers EXCEPT ![p] =
                        IF tag # None
                        THEN [@ EXCEPT !.pc = "attach", !.tag = tag]
                        ELSE [@ EXCEPT !.pc = "failed",
                                       !.error = "DatabaseOperationError"]]
    /\ UNCHANGED <<backend, clock, calibrations, tags, associations>>

\* await self._add_tag_use_case.execute(input_dto), errors translated
Controller_attach(p) ==
    /\ callers[p].pc = "attach"
    /\ \E r \in {AddTagToCalibrationUseCase_execute(
                     callers[p].cid, callers[p].tag)} :
          /\ Len(r.store) <= MaxAssocs
          /\ associations' = r.store
          /\ callers' = [callers EXCEPT ![p] =
                IF r.error = "" THEN [@ EXCEPT !.pc = "done"]
                ELSE [@ EXCEPT !.pc = "failed",
                    !.error = IF r.error \in {"CalibrationNotFoundError",
                                              "TagNotFoundError"}
                              THEN "NotFoundError" ELSE r.error]]
    /\ UNCHANGED <<backend, clock, calibrations, tags>>

\* the response was sent; the caller may issue its next request
Controller_respond(p) ==
    /\ callers[p].pc \in {"done", "failed"}
    /\ callers' = [callers EXCEPT ![p] = Idle]
    /\ UNCHANGED <<backend, clock, calibrations, tags, associations>>

NextByName ==
    \/ \E cid \in CalIds : AddCalibration(cid, "alice", 0, "gain")
    \/ \E p \in Callers, cid \in CalIds, n \in TagNames :
           Controller_begin(p, cid, n)
    \/ \E p \in Callers : GetOrCreateTag_get_by_name(p)
    \/ \E p \in Callers : CreateTagUseCase_get_by_name(p)
    \/ \E p \in Callers : CreateTagUseCase_add(p)
    \/ \E p \in Callers : GetOrCreateTag_get_by_name_again(p)
    \/ \E p \in Callers : Controller_attach(p)
    \/ \E p \in Callers : Controller_respond(p)

SpecByName == Init /\ [][NextByName]_vars

\* ------------------------------------------------------------------------
\* Attach and detach by two callers, one repository call per step: every
\* await in execute() is a point where the other caller's request may run.
\* ------------------------------------------------------------------------
\* a request inside a use case: its position, its input, the association
\* it holds
Request(pc, cid, tid) ==
    [pc |-> pc, cid |-> cid, tid |-> tid, held |-> <<>>, error |-> ""]

\* ids of the associations that callers built and have not stored yet
HeldIds ==
    {callers[p].held[1].id :
        p \in {q \in Callers : callers[q].pc = "attach_add_tags"}}

\* uuid4() among concurrent callers: an identifier that no stored
\* association and no association built by a caller carries
uuid4_unused ==
    LET used == {associations[i].id : i \in 1..Len(associations)} \cup HeldIds
    IN Min({i \in 1..(Cardinality(used) + 1) : i \notin used})

\* attach 1. calibration = await get(id=calibration_id)
Attach_get(p, cid, tid) ==
    /\ callers[p].pc = "idle"
    /\ callers' = [callers EXCEPT ![p] =
          IF Repo_get(cid)
          THEN Request("attach_get_by_id", cid, tid)
          ELSE [Request("failed", cid, tid)
                   EXCEPT !.error = "CalibrationNotFoundError"]]
    /\ UNCHANGED <<backend, clock, calibrations, tags, associations>>

\* attach 2. tag = await get_by_id(tag_id)
Attach_get_by_id(p) ==
    /\ callers[p].pc = "attach_get_by_id"
    /\ callers' = [callers EXCEPT ![p] =
          IF Repo_tag_get_by_id(callers[p].tid)
          THEN [@ EXCEPT !.pc = "attach_get_tag_associations"]
          ELSE [@ EXCEPT !.pc = "failed", !.error = "TagNotFoundError"]]
    /\ UNCHANGED <<backend, clock, calibrations, tags, associations>>

\* attach 3. existing_associations = await
\* get_tag_associations_for_calibration(); an active one is returned,
\* else 4. the new association is built
Attach_get_tag_associations(p) ==
    /\ callers[p].pc = "attach_get_tag_associations"
    /\ LET existing_associations ==
               Repo_get_tag_associations_for_calibration(
                   associations, callers[p].cid, None)
           active == ActiveAssociations(existing_associations, callers[p].tid)
       IN callers' = [callers EXCEPT ![p] =
             IF active # {}
             THEN [@ EXCEPT !.pc = "done",
                            !.held = <<existing_associations[Min(active)]>>]
             ELSE [@ EXCEPT !.pc = "attach_add_tags",
                            !.held = <<CalibrationTagAssociation(
                                          uuid4_unused, callers[p].cid,
                                          callers[p].tid, clock)>>]]
    /\ UNCHANGED <<backend, clock, calibrations, tags, associations>>

\* attach 5. await add_tags(calibration_id, [new_association])
Attach_add_tags(p) ==
    /\ callers[p].pc = "attach_add_tags"
    /\ \E r \in {Repo_add_tags(callers[p].cid, callers[p].held)} :
          /\ Len(r.store) <= MaxAssocs
          /\ associations' = r.store
          /\ callers' = [callers EXCEPT ![p] =
                IF r.error = "" THEN [@ EXCEPT !.pc = "done"]
                ELSE [@ EXCEPT !.pc = "failed", !.error = r.error]]
    /\ UNCHANGED <<backend, clock, calibrations, tags>>

\* detach 1. calibration = await get(id=calibration_id)
Detach_get(p, cid, tid) ==
    /\ callers[p].pc = "idle"
    /\ callers' = [callers EXCEPT ![p] =
          IF Repo_get(cid)
          THEN Request("detach_get_by_id", cid, tid)
          ELSE [Request("failed", cid, tid)
                   EXCEPT !.error = "CalibrationNotFoundError"]]
    /\ UNCHANGED <<backend, clock, calibrations, tags, associations>>

\* detach 2. tag = await get_by_id(tag_id)
Detach_get_by_id(p) ==
    /\ callers[p].pc = "detach_get_by_id"
    /\ callers' = [callers EXCEPT ![p] =
          IF Repo_tag_get_by_id(callers[p].tid)
          THEN [@ EXCEPT !.pc = "detach_get_tag_associations"]
          ELSE [@ EXCEPT !.pc = "failed", !.error = "TagNotFoundError"]]
    /\ UNCHANGED <<backend, clock, calibrations, tags, associations>>

\* detach 3. now = datetime.now(UTC); active_associations = await
\* get_tag_associations_for_calibration(active_at=now); 4. none found:
\* AssociationNotFoundError; 5. association_to_archive.archive()
Detach_get_tag_associations(p) ==
    /\ callers[p].pc = "detach_get_tag_associations"
    /\ LET now == clock
           active_associations ==
               Repo_get_tag_associations_for_calibration(
                   associations, callers[p].cid, now)
           hits == ActiveAssociations(active_associations, callers[p].tid)
       IN callers' = [callers EXCEPT ![p] =
             IF hits = {}
             THEN [@ EXCEPT !.pc = "failed",
                            !.error = "AssociationNotFoundError"]
             ELSE [@ EXCEPT !.pc = "detach_update_tag_association",
                            !.held = <<archive(active_associations[Min(hits)],
                                               clock)>>]]
    /\ UNCHANGED <<backend, clock, calibrations, tags, associations>>

\* detach 6. updated_association = await update_tag_association(
\* association_to_archive); None: RuntimeError
Detach_update_tag_association(p) ==
    /\ callers[p].pc = "detach_update_tag_association"
    /\ \E r \in {Repo_update_tag_association(callers[p].held[1])} :
          /\ associations' = r.store
          /\ callers' = [callers EXCEPT ![p] =
                IF r.result = <<>>
                THEN [@ EXCEPT !.pc = "failed", !.error = "RuntimeError"]
                ELSE [@ EXCEPT !.pc = "detached", !.held = r.result]]
    /\ UNCHANGED <<backend, clock, calibrations, tags>>

\* the use case returned or raised; the caller may issue its next request
Request_return(p) ==
    /\ callers[p].pc \in {"done", "detached", "failed"}
    /\ callers' = [callers EXCEPT ![p] = Idle]
    /\ UNCHANGED <<backend, clock, calibrations, tags, associations>>

\* one calibration and one tag are ever stored; requests name any of them
NextRaces ==
    \/ Tick
    \/ AddCalibration("c1", "alice", 0, "gain")
    \/ TagRepositoryAdd("A")
    \/ \E p \in Callers, cid \in CalIds, tid \in TagIds :
           Attach_get(p, cid, tid)
    \/ \E p \in Callers : Attach_get_by_id(p)
    \/ \E p \in Callers : Attach_get_tag_associations(p)
    \/ \E p \in Callers : Attach_add_tags(p)
    \/ \E p \in Callers, cid \in CalIds, tid \in TagIds :
           Detach_get(p, cid, tid)
    \/ \E p \in Callers : Detach_get_by_id(p)
    \/ \E p \in Callers : Detach_get_tag_associations(p)
    \/ \E p \in Callers : Detach_update_tag_association(p)
    \/ \E p \in Callers : Request_return(p)

SpecRaces == Init /\ [][NextRaces]_vars

\* ------------------------------------------------------------------------
\* The callers of the document-store adapter's stubs
\* ------------------------------------------------------------------------
\* find_one on the collection: the stored calibration of the id
Mongo_get(cals, cid) == cid \in {c.id : c \in cals}

\* GetTagsForCalibrationUseCase.execute over the document-store adapter
Mongo_GetTagsForCalibrationUseCase_execute(cid, timestamp) ==
    IF ~Mongo_get(calibrations, cid)
    THEN [error |-> "CalibrationNotFoundError", tag_names |-> <<>>]
    ELSE
      LET assocs == Mongo_get_tag_associations_for_calibration(
                        associations, cid, timestamp)
          tag_ids == [i \in 1..Len(assocs) |-> assocs[i].tag_id]
          found == IF tag_ids # <<>> THEN Repo_tag_get_by_ids(tag_ids) ELSE <<>>
      IN [error |-> "",
          tag_names |-> Sorted([i \in 1..Len(found) |-> found[i].name])]

\* step 6 of detach over the document-store adapter: what the use case
\* raises after update_tag_association returned
Mongo_RemoveTagFromCalibrationUseCase_persist(a) ==
    IF Mongo_update_tag_association(associations, a).result = <<>>
    THEN "RuntimeError" ELSE ""

\* ------------------------------------------------------------------------
\* Transport: controller, then endpoint.  cause is what the use case (or the
\* controller's own lookup) raised, raised what the controller raises for
\* it, status the status of the endpoint's HTTPException (200: no failure).
\* ------------------------------------------------------------------------
NotFoundKinds ==
    {"CalibrationNotFoundError", "TagNotFoundError", "AssociationNotFoundError"}

\* the except clauses of an endpoint; only the bulk endpoint has a clause
\* for InputParseError
EndpointStatus(raised, catches_input_parse) ==
    IF raised = "" THEN 200
    ELSE IF raised = "InputParseError" /\ catches_input_parse THEN 400
    ELSE IF raised = "NotFoundError" THEN 404
    ELSE 500

\* the except clauses of a controller: the kinds in not_found become
\* NotFoundError, DatabaseOperationError is re-raised, the kinds in
\* input_parse become InputParseError, anything else UseCaseError
ControllerRaises(cause, not_found, input_parse) ==
    IF cause = "" THEN ""
    ELSE IF cause \in input_parse THEN "InputParseError"
    ELSE IF cause \in not_found THEN "NotFoundError"
    ELSE IF cause = "DatabaseOperationError" THEN cause
    ELSE "UseCaseError"

Response(cause, not_found, input_parse) ==
    [cause |-> cause,
     raised |-> ControllerRaises(cause, not_found, input_parse),
     status |-> EndpointStatus(ControllerRaises(cause, not_found, input_parse),
                               input_parse # {})]

\* _get_or_create_tag with no other request running: the tag of the name,
\* or the tag CreateTagUseCase makes; any exception of the use case other
\* than DatabaseOperationError becomes UseCaseError
GetOrCreateTag(name) ==
    LET tag == Repo_tag_get_by_name(name)
    IN IF tag # None THEN [cause |-> "", tag |-> tag]
       ELSE LET c == CreateTagUseCase_execute(name)
            IN [cause |-> c.error, tag |-> c.tag]

\* POST /calibrations/{calibration_id}/tags.  A tag made by this request is
\* stored and has no association, so the attach that follows fails only on
\* the calibration
add_tag_to_calibration_endpoint(cid, name) ==
    LET g == GetOrCreateTag(name)
        cause == IF g.cause # "" THEN g.cause
                 ELSE IF Repo_tag_get_by_id(g.tag)
                 THEN AddTagToCalibrationUseCase_execute(cid, g.tag).error
                 ELSE IF ~Repo_get(cid) THEN "CalibrationNotFoundError"
                 ELSE ""
    IN Response(cause, {"CalibrationNotFoundError", "TagNotFoundError"}, {})

\* DELETE /calibrations/{calibration_id}/tags/{tag_name}
remove_tag_from_calibration_path_endpoint(cid, name, later) ==
    LET tag == Repo_tag_get_by_name(name)
        cause == IF tag = None THEN "TagNotFoundError"
                 ELSE RemoveTagFromCalibrationUseCase_execute(
                          cid, tag, later).error
    IN Response(cause, NotFoundKinds, {})

\* POST /tags/calibrations/{calibration_id}/tags:bulk
bulk_add_tags_to_calibration_endpoint(cid, tag_ids, order) ==
    Response(AddBulkTagsToCalibrationUseCase_call(cid, tag_ids, order).error,
             {"CalibrationNotFoundError", "TagNotFoundError"},
             {"ValidationError"})

\* GET /calibrations/{calibration_id}/tags
get_tags_for_calibration_endpoint(cid, timestamp) ==
    Response(GetTagsForCalibrationUseCase_execute(cid, timestamp).error,
             {"CalibrationNotFoundError"}, {})

\* GET /tags/{tag_name}/calibrations
get_calibrations_by_tag_endpoint(tag_name, timestamp, username) ==
    Response(GetCalibrationsByTagUseCase_execute(
                 tag_name, timestamp, username).error,
             {"TagNotFoundError"}, {})

\* ------------------------------------------------------------------------
\* Properties
\* ------------------------------------------------------------------------
Stored == Range(associations)

\* the stored associations of a (calibration, tag) pair, oldest first
PairAssociations(store, cid, tid) ==
    SelectSeq(store, LAMBDA a : a.calibration_id = cid /\ a.tag_id = tid)

\* the active-at-T predicate of the data model
ActiveAt(a, T) ==
    a.created_at <= T /\ (a.archived_at = None \/ a.archived_at > T)

TagIsStored(tid) == \E i \in 1..Len(tags) : tags[i].id = tid

CalibrationIsStored(cid) == \E c \in calibrations : c.id = cid

WriteCalls == {"add_tags", "update_tag_association", "add_calibration", "add"}

\* C1: after any sequence of attach, bulk-attach and detach calls executed
\* one at a time, every (calibration, tag) pair has at most one stored
\* association whose archived_at is unset.
C1_AtMostOneActivePerPair ==
    \A cid \in CalIds, tid \in TagIds :
        Cardinality({i \in 1..Len(associations) :
                        /\ associations[i].calibration_id = cid
                        /\ associations[i].tag_id = tid
                        /\ associations[i].archived_at = None}) <= 1

\* a pair that was attached, detached and attached again
C1_Witness ==
    \E cid \in CalIds, tid \in TagIds :
        LET h == PairAssociations(associations, cid, tid)
        IN Len(h) = 2 /\ h[1].archived_at # None /\ h[2].archived_at = None

\* C2: for every calibration and instant T, the lookup with active_at = T
\* returns exactly the stored associations of the calibration with
\* created_at <= T and (archived_at unset or archived_at > T), on the
\* in-memory and on the relational adapter.
C2_ActiveAtLookupIsExact ==
    \A cid \in CalIds, T \in Instants :
        Range(Repo_get_tag_associations_for_calibration(associations, cid, T))
          = {a \in Stored : a.calibration_id = cid /\ ActiveAt(a, T)}

\* C3: for every (calibration, tag) pair and every instant T, the records
\* returned by the lookup with active_at = T contain at most one association
\* of that tag.
C3_AtMostOneActiveAtT ==
    \A cid \in CalIds, tid \in TagIds, T \in Instants :
        Len(SelectSeq(
              Repo_get_tag_associations_for_calibration(associations, cid, T),
              LAMBDA a : a.tag_id = tid)) <= 1

\* C4: with tag A attached to a calibration at t0, tag B attached at t1 > t0
\* and tag B detached at t2 > t1, the tags of the calibration are {A} at any
\* T with t0 < T < t1, {A, B} at any T with t1 < T < t2 and {A} at any T > t2.
C4_TagsAtInstants ==
    \A cid \in CalIds, T \in Instants :
        LET mine == SelectSeq(associations, LAMBDA a : a.calibration_id = cid)
            names == Range(GetTagsForCalibrationUseCase_execute(cid, T).tag_names)
        IN (/\ Len(mine) = 2
            /\ TagRow(tags, mine[1].tag_id).name = "A"
            /\ TagRow(tags, mine[2].tag_id).name = "B"
            /\ mine[1].archived_at = None
            /\ mine[2].archived_at # None
            /\ mine[1].created_at < mine[2].created_at
            /\ mine[2].created_at < mine[2].archived_at)
           => /\ (mine[1].created_at < T /\ T < mine[2].created_at)
                    => names = {"A"}
              /\ (mine[2].created_at < T /\ T < mine[2].archived_at)
                    => names = {"A", "B"}
              /\ mine[2].archived_at < T => names = {"A"}

\* C5: attaching a tag, detaching it and attaching it again yields two
\* association records of the pair with distinct ids, both returned by the
\* lookup without active_at; the earlier one has archived_at set and only
\* the later one has archived_at unset.
C5_ReattachAddsARecord ==
    \A cid \in CalIds, tid \in TagIds :
        LET h == PairAssociations(associations, cid, tid)
            r == AddTagToCalibrationUseCase_execute(cid, tid)
            after == PairAssociations(r.store, cid, tid)
            all == Repo_get_tag_associations_for_calibration(r.store, cid, None)
        IN (Len(h) = 1 /\ h[1].archived_at # None)
           => /\ r.error = ""
              /\ Len(after) = 2
              /\ after[1] = h[1]
              /\ after[1].id # after[2].id
              /\ {after[1], after[2]} \subseteq Range(all)
              /\ after[1].archived_at # None
              /\ after[2].archived_at = None
              /\ r.result = <<after[2]>>

\* a pair that was attached and detached, ready to be attached again
C5_Witness ==
    \E cid \in CalIds, tid \in TagIds :
        LET h == PairAssociations(associations, cid, tid)
        IN /\ Len(h) = 1 /\ h[1].archived_at # None
           /\ Len(AddTagToCalibrationUseCase_execute(cid, tid).store)
                 = Len(associations) + 1

\* C6: the lookup without active_at returns every stored association of the
\* calibration, archived ones included, and no association of any other
\* calibration.
C6_UnscopedLookupReturnsAll ==
    \A cid \in CalIds :
        Range(Repo_get_tag_associations_for_calibration(associations, cid, None))
          = {a \in Stored : a.calibration_id = cid}

\* a calibration with an archived association while another calibration
\* has an association too
C6_Witness ==
    \E a \in Stored, b \in Stored :
        /\ a.archived_at # None
        /\ b.calibration_id # a.calibration_id
        /\ a \in Range(Repo_get_tag_associations_for_calibration(
                          associations, a.calibration_id, None))

\* C7: in every reachable state every stored association whose archived_at
\* is set has archived_at >= created_at.
C7_ArchivedNotBeforeCreated ==
    \A a \in Stored : a.archived_at # None => a.archived_at >= a.created_at

\* an association created after the first instant and archived later still
C7_Witness ==
    \E a \in Stored :
        a.created_at > 0 /\ a.archived_at # None /\ a.archived_at > a.created_at

\* C8: archive() on an association whose archived_at is already set leaves
\* archived_at and every other field unchanged, whatever the current time.
C8_ArchiveIsIdempotent ==
    \A a \in Stored, now \in Instants :
        /\ is_archived(a) => archive(a, now) = a
        /\ archive(archive(a, clock), now) = archive(a, clock)

\* an archived association and a later current time
C8_Witness ==
    \E a \in Stored : a.archived_at # None /\ a.archived_at < clock

\* C9: when an association of (calibration, tag) with archived_at unset
\* exists, attach returns that association, calls no write on the repository
\* and leaves the stored associations unchanged.
C9_AttachIsIdempotent ==
    \A a \in Stored :
        a.archived_at = None =>
            LET r == AddTagToCalibrationUseCase_execute(a.calibration_id, a.tag_id)
            IN /\ r.error = ""
               /\ r.result = <<a>>
               /\ Range(r.calls) \cap WriteCalls = {}
               /\ r.store = associations

\* an active association whose pair is attached again
C9_Witness ==
    \E a \in Stored :
        /\ a.archived_at = None
        /\ AddTagToCalibrationUseCase_execute(a.calibration_id, a.tag_id).calls
             = <<"get", "get_by_id", "get_tag_associations_for_calibration">>

\* C10: detach on a stored calibration and a stored tag that have no
\* association with archived_at unset (never attached, or every association
\* archived) fails with AssociationNotFoundError, never calls
\* update_tag_association and leaves every stored association unchanged.
C10_DetachWithoutActiveFails ==
    \A cid \in CalIds, tid \in TagIds, later \in Instants :
        (/\ CalibrationIsStored(cid)
         /\ TagIsStored(tid)
         /\ \A a \in Stored :
               (a.calibration_id = cid /\ a.tag_id = tid) => a.archived_at # None)
        => LET r == RemoveTagFromCalibrationUseCase_execute(cid, tid, later)
           IN /\ r.error = "AssociationNotFoundError"
              /\ "update_tag_association" \notin Range(r.calls)
              /\ r.result = <<>>
              /\ r.store = associations

\* a pair whose only association is archived, and a pair never attached
C10_Witness ==
    /\ \E cid \in CalIds, tid \in TagIds :
          LET h == PairAssociations(associations, cid, tid)
          IN /\ Len(h) >= 1
             /\ \A i \in 1..Len(h) : h[i].archived_at # None
             /\ RemoveTagFromCalibrationUseCase_execute(cid, tid, clock).error
                  = "AssociationNotFoundError"
    /\ \E cid \in CalIds, tid \in TagIds :
          /\ CalibrationIsStored(cid) /\ TagIsStored(tid)
          /\ PairAssociations(associations, cid, tid) = <<>>

\* the tag ids of the associations of a calibration with archived_at unset
ActiveSet(store, cid) ==
    {a.tag_id : a \in {x \in Range(store) :
                          x.calibration_id = cid /\ x.archived_at = None}}

\* C11: bulk attach of a set R of stored tag ids to a stored calibration whose
\* active tag set is S returns one new association per tag of R \ S and no
\* other, reports exactly R \cap S as skipped, stores exactly the returned
\* associations (and issues no write when R \ S is empty), and afterwards
\* the associations active now on the calibration cover all of R.
C11_BulkAttachAddsMissingSkipsActive ==
    \A cid \in CalIds, tag_ids \in TagIdLists, order \in TagIdLists :
        (/\ tag_ids # <<>>
         /\ CalibrationIsStored(cid)
         /\ \A t \in Range(tag_ids) : TagIsStored(t)
         /\ order \in Orders(NewTagIds(cid, tag_ids)))
        => LET R == Range(tag_ids)
               S == ActiveSet(associations, cid)
               r == AddBulkTagsToCalibrationUseCase_call(cid, tag_ids, order)
               now_active == Repo_get_tag_associations_for_calibration(
                                 r.store, cid, clock)
           IN /\ r.error = ""
              /\ {r.result[i].tag_id : i \in 1..Len(r.result)} = R \ S
              /\ Len(r.result) = Cardinality(R \ S)
              /\ \A i \in 1..Len(r.result) :
                    /\ r.result[i].calibration_id = cid
                    /\ r.result[i].archived_at = None
              /\ r.skipped = R \cap S
              /\ r.store = associations \o r.result
              /\ (R \ S = {}) => Range(r.calls) \cap WriteCalls = {}
              /\ (R \ S # {}) => "add_tags" \in Range(r.calls)
              /\ R \subseteq {now_active[i].tag_id : i \in 1..Len(now_active)}

\* one requested tag is active already and the other one is added
C11_Witness ==
    \E cid \in CalIds, order \in TagIdLists :
        LET r == AddBulkTagsToCalibrationUseCase_call(cid, <<1, 2>>, order)
        IN /\ CalibrationIsStored(cid) /\ TagIsStored(1) /\ TagIsStored(2)
           /\ Cardinality(ActiveSet(associations, cid)) = 1
           /\ order \in Orders(NewTagIds(cid, <<1, 2>>))
           /\ r.error = ""
           /\ Len(r.result) = 1
           /\ Cardinality(r.skipped) = 1

\* C12: bulk attach with an empty list of tag ids fails with ValidationError
\* before any repository call: no read, no write, nothing returned and the
\* stored associations unchanged, whether or not the calibration exists.
C12_EmptyBulkIsRejectedFirst ==
    \A cid \in CalIds :
        LET r == AddBulkTagsToCalibrationUseCase_call(cid, <<>>, <<>>)
        IN /\ r.error = "ValidationError"
           /\ r.calls = <<>>
           /\ r.result = <<>>
           /\ r.store = associations

\* the empty request on a stored calibration that has associations, and on a
\* calibration that is not stored
C12_Witness ==
    /\ \E cid \in CalIds :
          /\ CalibrationIsStored(cid)
          /\ ActiveSet(associations, cid) # {}
          /\ AddBulkTagsToCalibrationUseCase_call(cid, <<>>, <<>>).error
               = "ValidationError"
    /\ \E cid \in CalIds : ~CalibrationIsStored(cid)

\* C13: bulk attach to a stored calibration in which one or more requested
\* tag ids are not stored fails with one TagNotFoundError naming every
\* missing id, after get and get_by_ids only (the associations are not
\* read), and stores no association, not even for the requested tags that
\* are stored.
C13_MissingTagsFailTheWholeBulk ==
    \A cid \in CalIds, tag_ids \in TagIdLists, order \in TagIdLists :
        LET missing == {t \in Range(tag_ids) : ~TagIsStored(t)}
            r == AddBulkTagsToCalibrationUseCase_call(cid, tag_ids, order)
        IN (CalibrationIsStored(cid) /\ missing # {})
           => /\ r.error = "TagNotFoundError"
              /\ r.skipped = missing
              /\ r.calls = <<"get", "get_by_ids">>
              /\ r.result = <<>>
              /\ r.store = associations

\* a request naming a stored tag, not yet attached, and a tag not stored
C13_Witness ==
    \E cid \in CalIds, t \in TagIds, u \in TagIds :
        /\ CalibrationIsStored(cid)
        /\ TagIsStored(t) /\ ~TagIsStored(u)
        /\ t \notin ActiveSet(associations, cid)
        /\ AddBulkTagsToCalibrationUseCase_call(cid, <<t, u>>, <<t>>).skipped
             = {u}

C15_TagNamesAreUnique ==
    /\ \A i, j \in 1..Len(tags) : tags[i].name = tags[j].name => i = j
    /\ \A n \in TagNames, p \in Callers :
          LET r == Repo_tag_add([id |-> TagUuid(p, n), name |-> n])
          IN (\E i \in 1..Len(tags) : tags[i].name = n)
             => /\ r.error = "DatabaseOperationError"
                /\ r.tags = tags

\* both names are stored, one tag is in use, and an add of a stored name
\* under a new id is refused
C15_Witness ==
    /\ Len(tags) = Cardinality(TagNames)
    /\ associations # <<>>
    /\ \E n \in TagNames :
          /\ Repo_tag_get_by_name(n) # TagUuid("q", n)
          /\ Repo_tag_add([id |-> TagUuid("q", n), name |-> n]).error
               = "DatabaseOperationError"

\* the calibration has an association with archived_at unset to the stored
\* tag of this name
HasActiveTagNamed(cid, name) ==
    \E a \in Stored :
        /\ a.calibration_id = cid
        /\ a.archived_at = None
        /\ \E i \in 1..Len(tags) : tags[i].id = a.tag_id /\ tags[i].name = name

\* C16: list_by_filters with the tag names A and B, in either order and
\* with or without a username, returns only calibrations that have an
\* association with archived_at unset for A and one for B, on the in-memory
\* and on the relational adapter.
C16_TagFilterRequiresAllTags ==
    \A username \in Usernames \cup {AnyUser},
       names \in {<<"A", "B">>, <<"B", "A">>} :
        LET listed == Repo_list_by_filters(username, None, AnyType, names)
        IN \A i \in 1..Len(listed) :
              /\ HasActiveTagNamed(listed[i].id, "A")
              /\ HasActiveTagNamed(listed[i].id, "B")

\* C17: on the same stored calibrations, tags and associations the
\* in-memory, the relational and the document-store adapter answer every
\* query alike: the association lookup with and without active_at, the
\* update of an association, the calibrations by tag at an instant and the
\* filtered listing.
C17_AdaptersAgree ==
    /\ \A cid \in CalIds, T \in Instants \cup {None} :
          LET im == InMemory_get_tag_associations_for_calibration(
                        associations, cid, T)
          IN /\ im = SqlAlchemy_get_tag_associations_for_calibration(
                         associations, cid, T)
             /\ im = Mongo_get_tag_associations_for_calibration(
                         associations, cid, T)
    /\ \A a \in Stored, now \in Instants :
          LET im == InMemory_update_tag_association(associations, archive(a, now))
          IN /\ im = SqlAlchemy_update_tag_association(
                         associations, archive(a, now))
             /\ im = Mongo_update_tag_association(associations, archive(a, now))
    /\ \A tid \in TagIds, T \in Instants, u \in Usernames \cup {AnyUser} :
          InMemory_get_by_tag_at_timestamp(calibrations, associations, tid, T, u)
            = SqlAlchemy_get_by_tag_at_timestamp(
                  calibrations, associations, tid, T, u)
    /\ \A u \in Usernames \cup {AnyUser},
          names \in {<<>>, <<"A">>, <<"B">>, <<"A", "B">>} :
          InMemory_list_by_filters(calibrations, associations, InMemory_tags,
                                   u, None, AnyType, names)
            = SqlAlchemy_list_by_filters(calibrations, associations, tags,
                                         u, None, AnyType, names)

\* C18: get_by_tag_at_timestamp(tag, T, username) returns exactly the
\* stored calibrations with an association of the tag satisfying
\* created_at <= T and (archived_at unset or archived_at > T), of the given
\* user when one is given; nothing else about the calibration decides.
C18_CalibrationsByTagAtInstant ==
    \A tid \in TagIds, T \in Instants, u \in Usernames \cup {AnyUser} :
        Range(Repo_get_by_tag_at_timestamp(tid, T, u))
          = {c \in calibrations :
                /\ \E a \in Stored :
                      a.calibration_id = c.id /\ a.tag_id = tid /\ ActiveAt(a, T)
                /\ u # AnyUser => c.username = u}

\* C19: attach on a calibration id that is not stored fails with
\* CalibrationNotFoundError after the lookup of the calibration alone,
\* whether or not the tag exists; attach on a stored calibration and a tag id
\* that is not stored fails with TagNotFoundError after the two lookups; in
\* both cases no association is read or written and the store is unchanged.
C19_AttachNotFoundOrder ==
    \A cid \in CalIds, tid \in TagIds :
        LET r == AddTagToCalibrationUseCase_execute(cid, tid)
        IN /\ ~CalibrationIsStored(cid)
                => /\ r.error = "CalibrationNotFoundError"
                   /\ r.calls = <<"get">>
                   /\ r.result = <<>>
                   /\ r.store = associations
           /\ (CalibrationIsStored(cid) /\ ~TagIsStored(tid))
                => /\ r.error = "TagNotFoundError"
                   /\ r.calls = <<"get", "get_by_id">>
                   /\ r.result = <<>>
                   /\ r.store = associations

\* associations are stored, and there are a calibration id that is not
\* stored, with a tag that is and a tag that is not, and a stored
\* calibration with a tag id that is not stored
C19_Witness ==
    /\ associations # <<>>
    /\ \E cid \in CalIds, t \in TagIds, u \in TagIds :
          /\ ~CalibrationIsStored(cid) /\ TagIsStored(t) /\ ~TagIsStored(u)
          /\ AddTagToCalibrationUseCase_execute(cid, u).error
               = "CalibrationNotFoundError"
    /\ \E cid \in CalIds, u \in TagIds :
          /\ CalibrationIsStored(cid) /\ ~TagIsStored(u)
          /\ AddTagToCalibrationUseCase_execute(cid, u).error
               = "TagNotFoundError"

\* C20: for a stored calibration and an instant T the use case returns the
\* names of exactly the tags referenced by the associations of the
\* calibration that are active at T (created_at <= T, and archived_at unset
\* or after T), as a list in ascending order of the names.
C20_TagNamesExactAndSorted ==
    \A cid \in CalIds, T \in Instants :
        LET r == GetTagsForCalibrationUseCase_execute(cid, T)
            active == {a \in Stored : a.calibration_id = cid /\ ActiveAt(a, T)}
        IN CalibrationIsStored(cid)
           => /\ r.error = ""
              /\ Range(r.tag_names)
                   = {TagRow(tags, a.tag_id).name : a \in active}
              /\ \A i \in 1..Len(r.tag_names) - 1 :
                    NameRank(r.tag_names[i]) <= NameRank(r.tag_names[i + 1])

\* the failure taxonomy of the use cases
Taxonomy ==
    {"CalibrationNotFoundError", "TagNotFoundError", "AssociationNotFoundError",
     "ValidationError", "DatabaseOperationError"}

\* C21: whatever the stored state and the input, a failure of attach,
\* detach, bulk attach, create-tag, tags-for-calibration or
\* calibrations-by-tag is a not-found error (calibration, tag, association),
\* a ValidationError or a DatabaseOperationError.
C21_FailuresAreInTheTaxonomy ==
    LET ok(e) == e = "" \/ e \in Taxonomy
    IN /\ \A cid \in CalIds, tid \in TagIds :
             ok(AddTagToCalibrationUseCase_execute(cid, tid).error)
       /\ \A cid \in CalIds, tid \in TagIds, later \in Instants :
             later >= clock =>
                ok(RemoveTagFromCalibrationUseCase_execute(cid, tid, later).error)
       /\ \A cid \in CalIds, tag_ids \in TagIdLists :
             \A order \in Orders(NewTagIds(cid, tag_ids)) :
                ok(AddBulkTagsToCalibrationUseCase_call(cid, tag_ids, order).error)
       /\ \A cid \in CalIds, T \in Instants :
             ok(GetTagsForCalibrationUseCase_execute(cid, T).error)
       /\ \A n \in TagNames, T \in Instants, u \in Usernames \cup {AnyUser} :
             ok(GetCalibrationsByTagUseCase_execute(n, T, u).error)
       /\ \A n \in RawNames : ok(CreateTagUseCase_execute(n).error)

\* C22: adding a calibration under an id that is already stored fails with
\* DatabaseOperationError, reports no calibration as created and leaves the
\* stored calibrations unchanged.
C22_DuplicateCalibrationIdFails ==
    \A cid \in CalIds, in \in CalibrationInputs :
        LET r == AddCalibrationUseCase_call(cid, in[1], in[2], in[3])
        IN CalibrationIsStored(cid)
           => /\ r.error = "DatabaseOperationError"
              /\ r.created = <<>>
              /\ r.cals = calibrations

\* C23: on the in-memory adapters a step in which a caller changes an entity
\* that a read returned (archive() on a returned association, append to the
\* tags of a returned calibration) leaves the stored calibrations, tags and
\* associations unchanged.
C23_ReadsReturnCopies ==
    [][(backend = "in_memory" /\ CallerMutates)
          => UNCHANGED <<calibrations, tags, associations>>]_vars

\* C24: across any sequence of use-case operations the association history
\* is append-only: in every step every stored
\* association stays stored with the same id, calibration_id, tag_id and
\* created_at, and its archived_at either stays as it is or goes from unset
\* to set.
C24_HistoryIsAppendOnly ==
    [][\A i \in 1..Len(associations) :
          /\ i <= Len(associations')
          /\ associations'[i].id = associations[i].id
          /\ associations'[i].calibration_id = associations[i].calibration_id
          /\ associations'[i].tag_id = associations[i].tag_id
          /\ associations'[i].created_at = associations[i].created_at
          /\ \/ associations'[i].archived_at = associations[i].archived_at
             \/ /\ associations[i].archived_at = None
                /\ associations'[i].archived_at # None]_vars

\* a history with an archived association and, stored after it, one that is
\* not archived
C24_Witness ==
    \E i, j \in 1..Len(associations) :
        /\ i < j
        /\ associations[i].archived_at # None
        /\ associations[j].archived_at = None

\* the status the failure taxonomy gives an outcome: not-found 404,
\* validation 400, database-operation 500; any other failure is outside it
StatusFollowsTaxonomy(r) ==
    /\ r.cause = "" => r.status = 200
    /\ r.cause \in NotFoundKinds => r.status = 404
    /\ r.cause = "ValidationError" => r.status = 400
    /\ r.cause = "DatabaseOperationError" => r.status = 500
    /\ r.cause = "" \/ r.cause \in Taxonomy

\* C25: whatever the stored state and the request, the attach, detach,
\* bulk-attach and lookup endpoints answer a not-found outcome with 404, a
\* validation outcome with 400 and a database-operation outcome with 500,
\* and every failure they answer is one of these.
C25_StatusIsDerivedFromTheTaxonomy ==
    /\ \A cid \in CalIds, n \in RawNames :
          StatusFollowsTaxonomy(add_tag_to_calibration_endpoint(cid, n))
    /\ \A cid \in CalIds, n \in RawNames, later \in Instants :
          later >= clock =>
             StatusFollowsTaxonomy(
                 remove_tag_from_calibration_path_endpoint(cid, n, later))
    /\ \A cid \in CalIds, tag_ids \in TagIdLists :
          \A order \in Orders(NewTagIds(cid, tag_ids)) :
             StatusFollowsTaxonomy(
                 bulk_add_tags_to_calibration_endpoint(cid, tag_ids, order))
    /\ \A cid \in CalIds, T \in Instants :
          StatusFollowsTaxonomy(get_tags_for_calibration_endpoint(cid, T))
    /\ \A n \in RawNames, T \in Instants, u \in Usernames \cup {AnyUser} :
          StatusFollowsTaxonomy(get_calibrations_by_tag_endpoint(n, T, u))

\* C26: on the document-store adapter a caller of the unimplemented
\* association lookup or association update never gets a successful answer:
\* tags-for-calibration on a stored calibration fails, and so does the
\* persisting step of detach.
C26_StubsSignalFailure ==
    /\ \A cid \in CalIds, T \in Instants :
          CalibrationIsStored(cid)
             => Mongo_GetTagsForCalibrationUseCase_execute(cid, T).error # ""
    /\ \A a \in Stored, now \in Instants :
          Mongo_RemoveTagFromCalibrationUseCase_persist(archive(a, now)) # ""

\* C27: when two attach requests for the same (calibration, tag) pair have
\* both returned an association they created, the pair does not have two
\* stored unarchived associations.
C27_RacingAttachesDoNotBothSucceed ==
    \A p, q \in Callers :
        (/\ p # q
         /\ callers[p].pc = "done" /\ callers[q].pc = "done"
         /\ callers[p].cid = callers[q].cid /\ callers[p].tid = callers[q].tid
         /\ callers[p].held[1].id # callers[q].held[1].id)
        => Cardinality({i \in 1..Len(associations) :
                          /\ associations[i].calibration_id = callers[p].cid
                          /\ associations[i].tag_id = callers[p].tid
                          /\ associations[i].archived_at = None}) <= 1

\* C28: a detach that persists an association which another detach has
\* archived already does not change its archived_at and ends in an error.
C28_SecondDetachDoesNotOverwrite ==
    [][\A p \in Callers :
          (/\ callers[p].pc = "detach_update_tag_association"
           /\ callers'[p].pc # callers[p].pc
           /\ \E i \in 1..Len(associations) :
                  /\ associations[i].id = callers[p].held[1].id
                  /\ associations[i].archived_at # None)
          => /\ callers'[p].pc = "failed"
             /\ associations' = associations]_vars

\* C29: a successful detach of a (calibration, tag) pair archives the
\* association of the pair that was active: the returned association has
\* its id, calibration_id, tag_id and created_at and an archived_at that is
\* set, the stored record is replaced by it and nothing else changes, and
\* afterwards no stored association of the pair has archived_at unset.
C29_DetachArchivesTheActiveAssociation ==
    \A cid \in CalIds, tid \in TagIds, later \in Instants :
        LET r == RemoveTagFromCalibrationUseCase_execute(cid, tid, later)
        IN (later >= clock /\ r.error = "")
           => /\ Len(r.result) = 1
              /\ \E i \in 1..Len(associations) :
                    /\ associations[i].calibration_id = cid
                    /\ associations[i].tag_id = tid
                    /\ associations[i].archived_at = None
                    /\ r.result[1].archived_at # None
                    /\ r.result[1] = [associations[i] EXCEPT
                                         !.archived_at = r.result[1].archived_at]
                    /\ r.store = [associations EXCEPT ![i] = r.result[1]]
              /\ \A j \in 1..Len(r.store) :
                    (r.store[j].calibration_id = cid /\ r.store[j].tag_id = tid)
                       => r.store[j].archived_at # None

\* a pair with an archived association and an active one, whose detach
\* succeeds and returns the active one archived
C29_Witness ==
    \E cid \in CalIds, tid \in TagIds :
        LET h == PairAssociations(associations, cid, tid)
            r == RemoveTagFromCalibrationUseCase_execute(cid, tid, clock)
        IN /\ Len(h) = 2
           /\ h[1].archived_at # None
           /\ h[2].archived_at = None
           /\ r.error = ""
           /\ r.result[1].id = h[2].id
           /\ r.result[1].archived_at = clock

\* C30: tags-for-calibration on a calibration id that is not stored fails
\* with CalibrationNotFoundError after the lookup of the calibration alone,
\* and calibrations-by-tag on a tag name that is not stored fails with
\* TagNotFoundError after the lookup of the tag alone: neither
\* get_tag_associations_for_calibration nor get_by_tag_at_timestamp is
\* issued, and nothing is returned.
C30_LookupsValidateTheirSubjectFirst ==
    /\ \A cid \in CalIds, T \in Instants :
          ~CalibrationIsStored(cid)
             => LET r == GetTagsForCalibrationUseCase_execute(cid, T)
                IN /\ r.error = "CalibrationNotFoundError"
                   /\ r.calls = <<"get">>
                   /\ r.tag_names = <<>>
    /\ \A n \in TagNames, T \in Instants, u \in Usernames \cup {AnyUser} :
          (\A i \in 1..Len(tags) : tags[i].name # n)
             => LET r == GetCalibrationsByTagUseCase_execute(n, T, u)
                IN /\ r.error = "TagNotFoundError"
                   /\ r.calls = <<"get_by_name">>
                   /\ r.calibrations = <<>>

\* associations are stored, a calibration id and a tag name are not, and both
\* lookups fail on them
C30_Witness ==
    /\ associations # <<>>
    /\ \E cid \in CalIds :
          /\ ~CalibrationIsStored(cid)
          /\ GetTagsForCalibrationUseCase_execute(cid, clock).error
               = "CalibrationNotFoundError"
    /\ \E n \in TagNames :
          /\ \A i \in 1..Len(tags) : tags[i].name # n
          /\ GetCalibrationsByTagUseCase_execute(n, clock, AnyUser).error
               = "TagNotFoundError"

\* the batches of one or two associations a caller of the repository port
\* may hand to add_tags
AssociationBatches ==
    LET Assocs == {CalibrationTagAssociation(id, cid, tid, clock) :
                      id \in 1..(MaxAssocs + 1), cid \in CalIds, tid \in TagIds}
    IN {<<a>> : a \in Assocs} \cup {<<a, b>> : a \in Assocs, b \in Assocs}

\* ------------------------------------------------------------------------
\* The repository port called with associations the caller built itself
\* ------------------------------------------------------------------------
\* the (calibration id, tag id) pairs of the one or two associations of a
\* batch that a caller may build
BatchPairs ==
    LET Pairs == CalIds \X TagIds
    IN {<<p>> : p \in Pairs} \cup {<<p, q>> : p \in Pairs, q \in Pairs}

\* the new associations of these pairs, created now; each draws its id with
\* uuid4(), an id that no association built before or after it carries
BuiltAssociations(pairs) ==
    [k \in 1..Len(pairs) |->
        CalibrationTagAssociation(10 * uuid4(associations) + k,
                                  pairs[k][1], pairs[k][2], clock)]

\* AddCalibrationTagUseCase: the calibration must exist, the associations go
\* to add_tags as they are
AddCalibrationTagUseCase_call(cid, batch) ==
    IF ~Repo_get(cid)
    THEN [store |-> associations, error |-> "CalibrationNotFoundError"]
    ELSE Repo_add_tags(cid, batch)

AddCalibrationTag(cid, pairs) ==
    \E r \in {AddCalibrationTagUseCase_call(cid, BuiltAssociations(pairs))} :
       /\ Len(r.store) <= MaxAssocs
       /\ associations' = r.store
       /\ UNCHANGED <<callers, backend, clock, calibrations, tags>>

\* CalibrationRepository.add_tags called directly
RepositoryAddTags(cid, pairs) ==
    \E r \in {Repo_add_tags(cid, BuiltAssociations(pairs))} :
       /\ Len(r.store) <= MaxAssocs
       /\ associations' = r.store
       /\ UNCHANGED <<callers, backend, clock, calibrations, tags>>

NextPort ==
    \/ Tick
    \/ \E cid \in CalIds : AddCalibration(cid, "alice", 0, "gain")
    \/ \E n \in TagNames : TagRepositoryAdd(n)
    \/ \E cid \in CalIds, tid \in TagIds : AddTagToCalibration(cid, tid)
    \/ \E cid \in CalIds, tid \in TagIds, later \in Instants :
           RemoveTagFromCalibration(cid, tid, later)
    \/ \E cid \in CalIds, pairs \in BatchPairs : AddCalibrationTag(cid, pairs)
    \/ \E cid \in CalIds, pairs \in BatchPairs : RepositoryAddTags(cid, pairs)

SpecPort == Init /\ [][NextPort]_vars

C32_TagsAreNeverMutated ==
    /\ [][\A i \in 1..Len(tags) : i <= Len(tags') /\ tags'[i] = tags[i]]_vars
    /\ [](\A n \in RawNames :
            (\E i \in 1..Len(tags) : tags[i].name = strip(n))
               => LET r == CreateTagUseCase_execute(n)
                  IN /\ r.error = ""
                     /\ r.tags = tags
                     /\ r.calls = <<"get_by_name">>
                     /\ \E i \in 1..Len(tags) :
                           tags[i].name = strip(n) /\ tags[i].id = r.tag)

\* both tags are stored, a tag was attached and detached, and create-tag is
\* asked for a stored name written with a leading blank
C32_Witness ==
    /\ Len(tags) = 2
    /\ \E i \in 1..Len(associations) : associations[i].archived_at # None
    /\ \E n \in RawNames :
          /\ n # strip(n)
          /\ \E i \in 1..Len(tags) : tags[i].name = strip(n)
          /\ CreateTagUseCase_execute(n).error = ""

C35_ListingIsExactAndOrdered ==
    \A u \in Usernames \cup {AnyUser}, ts \in Instants \cup {None},
       ty \in CalibrationTypes \cup {AnyType} :
        LET listed == Repo_list_by_filters(u, ts, ty, <<>>)
            matching == {c \in calibrations :
                            /\ u # AnyUser => c.username = u
                            /\ ts # None => c.timestamp = ts
                            /\ ty # AnyType => c.type = ty}
        IN /\ {listed[i].id : i \in 1..Len(listed)} = {c.id : c \in matching}
           /\ Len(listed) = Cardinality(matching)
           /\ \A i, j \in 1..Len(listed) :
                 i < j => listed[i].timestamp >= listed[j].timestamp

\* two stored calibrations of different timestamps and types: the listing
\* without filters has the later one first, the listing by type has one only
C35_Witness ==
    LET all == Repo_list_by_filters(AnyUser, None, AnyType, <<>>)
        gain == Repo_list_by_filters(AnyUser, None, "gain", <<>>)
    IN /\ Len(all) = 2
       /\ all[1].timestamp > all[2].timestamp
       /\ all[1].type = "offset"
       /\ Len(gain) = 1
       /\ gain[1] = all[2]

\* C36: with the tags created through the TagRepository and attached through
\* the attach use case, list_by_filters(tags=names) returns every stored
\* calibration that has an association with archived_at unset for each of
\* the names; a calibration with tag A active is listed for tags=[A].
C36_TagFilterIsComplete ==
    \A names \in {<<"A">>, <<"B">>, <<"A", "B">>, <<"B", "A">>} :
        LET listed == Repo_list_by_filters(AnyUser, None, AnyType, names)
        IN \A c \in calibrations :
              (\A k \in 1..Len(names) : HasActiveTagNamed(c.id, names[k]))
                 => \E i \in 1..Len(listed) : listed[i].id = c.id

\* C37: after any sequence of attach and detach calls the calibration that
\* get(id) returns, and the one that list_by_filters returns, carries as
\* tags exactly the tags that the calibration has an association with
\* archived_at unset for.
C37_EntityTagsMatchAssociations ==
    \A c \in calibrations :
        LET active == {n \in TagNames : HasActiveTagNamed(c.id, n)}
        IN /\ Range(Repo_get_tags(c.id)) = active
           /\ Range(Repo_list_by_filters_tags(c.id)) = active

\* C38: in every state reached through the use cases and through add_tags
\* of the repository port, each stored association belongs to a stored
\* calibration and refers to a stored tag; add_tags for a calibration that
\* is not stored stores nothing, and an association of the batch whose
\* calibration_id differs from the target is not stored.
C38_AssociationsReferToStoredEntities ==
    /\ \A a \in Stored :
          /\ CalibrationIsStored(a.calibration_id)
          /\ TagIsStored(a.tag_id)
    /\ \A cid \in CalIds, pairs \in BatchPairs :
          LET batch == BuiltAssociations(pairs)
              r == Repo_add_tags(cid, batch)
          IN /\ ~CalibrationIsStored(cid) => r.store = associations
             /\ \A k \in 1..Len(batch) :
                   batch[k].calibration_id # cid
                      => batch[k] \notin Range(r.store)

\* the stored associations after a successful detach of (cid, tid): one
\* record of the pair has another archived_at, every other field of it and
\* every other record is as before
DetachTouchesOneRecord ==
    \A cid \in CalIds, tid \in TagIds, later \in Instants :
        LET r == RemoveTagFromCalibrationUseCase_execute(cid, tid, later)
        IN (later >= clock /\ r.error = "")
           => /\ Len(r.store) = Len(associations)
              /\ \E i \in 1..Len(associations) :
                    /\ associations[i].calibration_id = cid
                    /\ associations[i].tag_id = tid
                    /\ r.store[i].archived_at # associations[i].archived_at
                    /\ r.store[i] = [associations[i] EXCEPT
                                        !.archived_at = r.store[i].archived_at]
                    /\ \A j \in 1..Len(associations) :
                          j # i => r.store[j] = associations[j]

\* the stored associations after the attach of (cid, tid): the ones before,
\* unchanged, and one new record of the pair
AttachAddsOneRecord(cid, tid) ==
    LET r == AddTagToCalibrationUseCase_execute(cid, tid)
        n == Len(associations)
    IN /\ Len(r.store) = n + 1
       /\ SubSeq(r.store, 1, n) = associations
       /\ r.store[n + 1].calibration_id = cid
       /\ r.store[n + 1].tag_id = tid

\* an attach or a detach step leaves every calibration and every tag as it is
AttachAndDetachKeepCalibrationsAndTags ==
    (\/ \E cid \in CalIds, tid \in TagIds : AddTagToCalibration(cid, tid)
     \/ \E cid \in CalIds, tid \in TagIds, later \in Instants :
           RemoveTagFromCalibration(cid, tid, later))
       => (calibrations' = calibrations /\ tags' = tags)

\* C39 as stated: every successful attach of (C, T) adds exactly one
\* association record and changes no existing record, a successful detach
\* changes the archived_at of exactly one record, and every other
\* association, every calibration and every tag is left unchanged.
C39_EverySuccessfulAttachAddsOneRecord ==
    /\ [][AttachAndDetachKeepCalibrationsAndTags]_vars
    /\ [](/\ \A cid \in CalIds, tid \in TagIds :
               AddTagToCalibrationUseCase_execute(cid, tid).error = ""
                  => AttachAddsOneRecord(cid, tid)
          /\ DetachTouchesOneRecord)

\* C39: a successful attach of (C, T) that finds no association of the pair
\* with archived_at unset adds exactly one association record, of that pair,
\* and changes no existing record; one that finds such an association stores
\* nothing; a successful detach changes the archived_at of exactly one
\* record, of that pair; every other association, every calibration and
\* every tag is left unchanged.
C39_AttachAndDetachTouchOnePair ==
    /\ [][AttachAndDetachKeepCalibrationsAndTags]_vars
    /\ [](/\ \A cid \in CalIds, tid \in TagIds :
               LET r == AddTagToCalibrationUseCase_execute(cid, tid)
               IN r.error = ""
                  => IF \E a \in Stored : /\ a.calibration_id = cid
                                          /\ a.tag_id = tid
                                          /\ a.archived_at = None
                     THEN r.store = associations
                     ELSE AttachAddsOneRecord(cid, tid)
          /\ DetachTouchesOneRecord)

\* two stored associations, one of (c1, A) with archived_at unset and one of
\* another pair: the detach of (c1, A) succeeds, the attach of (c1, A)
\* succeeds as well, and the attach of (c1, B) adds a third record
C39_Witness ==
    /\ Len(associations) = 2
    /\ \E i, j \in 1..2 :
          /\ i # j
          /\ associations[i].calibration_id = "c1"
          /\ associations[i].tag_id = TagIdOf("A")
          /\ associations[i].archived_at = None
          /\ associations[j].calibration_id = "c2"
    /\ RemoveTagFromCalibrationUseCase_execute("c1", TagIdOf("A"), clock).error = ""
    /\ AddTagToCalibrationUseCase_execute("c1", TagIdOf("A")).error = ""
    /\ AddTagToCalibrationUseCase_execute("c1", TagIdOf("B")).error = ""
    /\ Len(AddTagToCalibrationUseCase_execute("c1", TagIdOf("B")).store) = 3

====
